---------------------------- MODULE Spec2Model ----------------------------
(***************************************************************************)
(* LeapMotionControl.py: a Leap Motion listener that turns the pose of the *)
(* rightmost hand of each tracking frame into six actuator lengths of a    *)
(* Stewart platform and sends them, rate limited, over a serial link.      *)
(*                                                                         *)
(* Numbers.  The source computes in IEEE doubles.  Here a coordinate is an *)
(* integer number of hundredths of a millimetre (all geometry constants of *)
(* the source have at most two decimals), an actuator length is an integer *)
(* number of tenths of a millimetre truncated toward zero, and an angle is *)
(* a number of quarter turns, so cos and sin are exactly -1, 0 or 1.       *)
(* Strings are sequences of one-character strings.                         *)
(***************************************************************************)
EXTENDS Integers, Sequences, FiniteSets, TLC

VARIABLES
    NO_SERIAL,         \* module flag NO_SERIAL (line 9), fixed for a session
    callback,          \* the latest callback made: "none", "on_init", "on_connect", ...
    session,           \* "new", "active", "exited" (on_exit ran), "aborted" (an exception left a callback)
    frame_count,       \* self.frame_count
    ser,               \* self.ser: "none" (no object), "open", "closed"
    frame,             \* controller.frame() of the latest on_frame: a sequence of hands
    nframes,           \* number of on_frame callbacks delivered so far
    transform_matrix,  \* local transform_matrix of the latest callback (<<>> when not built)
    actuator_lengths,  \* local actuator_lengths of the latest callback (<<>> when not computed)
    ser_string,        \* local ser_string of the latest callback (<<>> when not computed)
    out,               \* lines printed by the latest callback
    io,                \* device operations made by the latest callback, in order
    nvalid,            \* number of those whose rightmost hand was valid
    sent,              \* every transmission of the session: frame number, number of
                       \* valid-hand frames up to it, data, outcome of the write
    twin_count,        \* frame_count of a second listener running with NO_SERIAL = True
    twin_out,          \* lines printed by the latest callback of that listener
    twin_io            \* device operations made by the latest callback of that listener

vars == <<NO_SERIAL, callback, session, frame_count, ser, frame, nframes, transform_matrix,
          actuator_lengths, ser_string, out, io, nvalid, sent, twin_count, twin_out, twin_io>>

----------------------------------------------------------------------------
(* Module constants, lines 9-31 *)

FRAME_RATE == 10

NUM_ACTUATORS == 6

\* hundredths of a millimetre per millimetre: the unit of coordinates
Hundredths == 100

\* tenths of a millimetre per millimetre: the unit of actuator lengths
Tenths == 10

HOME_POSITION_HEIGHT == 319 * Hundredths

MIN_ACTUATOR_LEN == 335 * Tenths

BASE_POS ==
    << <<-24634,   8642, 0>>,
       <<-19816,  17038, 0>>,
       << 19816,  17038, 0>>,
       << 24634,   8642, 0>>,
       <<  4848, -25680, 0>>,
       << -4848, -25680, 0>> >>

END_EFF_POS ==
    << <<-22560,  -7326, 0, 1>>,
       << -4935,  23201, 0, 1>>,
       <<  4935,  23201, 0, 1>>,
       << 22560,  -7326, 0, 1>>,
       << 17625, -15875, 0, 1>>,
       <<-17625, -15875, 0, 1>> >>

----------------------------------------------------------------------------
(* str(int(l)) and assemble_serial_output, lines 34-42 *)

Abs(n) == IF n < 0 THEN -n ELSE n

\* IntOf rounding toward minus infinity, as math.floor would
IntFloor(l) == l \div Tenths

\* int(l) of a float l given in tenths: Python's int() drops the fraction,
\* truncating toward zero
IntOf(l) == IF l >= 0 THEN l \div Tenths ELSE -((-l) \div Tenths)

Digit(d) == <<"0", "1", "2", "3", "4", "5", "6", "7", "8", "9">>[d + 1]

RECURSIVE Digits(_)
Digits(n) == IF n < 10 THEN <<Digit(n)>> ELSE Digits(n \div 10) \o <<Digit(n % 10)>>

\* str(n) of a Python int
Str(n) == IF n < 0 THEN <<"-">> \o Digits(-n) ELSE Digits(n)

\* sep.join(parts), from the k-th part on
RECURSIVE JoinFrom(_, _, _)
JoinFrom(sep, parts, k) ==
    IF k > Len(parts) THEN <<>>
    ELSE IF k = Len(parts) THEN parts[k]
    ELSE parts[k] \o sep \o JoinFrom(sep, parts, k + 1)

Join(sep, parts) == JoinFrom(sep, parts, 1)

assemble_serial_output(actuators) ==
    <<"<">> \o Join(<<",">>, [i \in 1..Len(actuators) |-> Str(IntOf(actuators[i]))]) \o <<">">>

----------------------------------------------------------------------------
(* The solver inside on_frame, lines 84-106 *)

\* np.cos and np.sin of an angle of q quarter turns
Cos(q) == <<1, 0, -1, 0>>[(q % 4) + 1]

Sin(q) == <<0, 1, 0, -1>>[(q % 4) + 1]

\* TransformMatrix with cos(roll) for sin(roll) in the third entry of the second row
TransformMatrixCosRoll(pitch, yaw, roll) ==
    << << Cos(yaw) * Cos(pitch),
          Cos(pitch) * Sin(yaw),
          -Sin(pitch),
          0 >>,
       << Cos(yaw) * Sin(pitch) * Sin(roll) - Sin(yaw) * Cos(roll),
          Cos(yaw) * Cos(roll) + Sin(roll) * Sin(yaw) * Sin(pitch),
          Cos(pitch) * Cos(roll),
          0 >>,
       << Cos(yaw) * Sin(pitch) * Cos(roll) + Sin(yaw) * Sin(roll),
          -Cos(yaw) * Sin(roll) + Cos(roll) * Sin(yaw) * Sin(pitch),
          Cos(pitch) * Cos(roll),
          0 >>,
       << 0, 0, 0, 1 >> >>

\* lines 91-94
TransformMatrix(pitch, yaw, roll) ==
    << << Cos(yaw) * Cos(pitch),
          Cos(pitch) * Sin(yaw),
          -Sin(pitch),
          0 >>,
       << Cos(yaw) * Sin(pitch) * Sin(roll) - Sin(yaw) * Cos(roll),
          Cos(yaw) * Cos(roll) + Sin(roll) * Sin(yaw) * Sin(pitch),
          Cos(pitch) * Sin(roll),
          0 >>,
       << Cos(yaw) * Sin(pitch) * Cos(roll) + Sin(yaw) * Sin(roll),
          -Cos(yaw) * Sin(roll) + Cos(roll) * Sin(yaw) * Sin(pitch),
          Cos(pitch) * Cos(roll),
          0 >>,
       << 0, 0, 0, 1 >> >>

\* matrix (4x4) times column vector (4), line 101
MatVec(m, v) == [r \in 1..4 |-> m[r][1] * v[1] + m[r][2] * v[2] + m[r][3] * v[3] + m[r][4] * v[4]]

\* line 101: transform_matrix * END_EFF_POS[i].T + [x, -z, y + home, 0].T
EffectorPos(hand, i) ==
    LET rot == MatVec(TransformMatrix(hand.pitch, hand.yaw, hand.roll), END_EFF_POS[i])
        off == << hand.x * Hundredths, -(hand.z * Hundredths),
                  hand.y * Hundredths + HOME_POSITION_HEIGHT, 0 >>
    IN  [r \in 1..4 |-> rot[r] + off[r]]

\* the largest r in lo..hi with r * r <= n, for t = <<n, lo, hi>>
ISqrtIn[t \in Nat \X Nat \X Nat] ==
    IF t[2] = t[3] THEN t[2]
    ELSE LET mid == (t[2] + t[3] + 1) \div 2
         IN  IF mid * mid <= t[1] THEN ISqrtIn[<<t[1], mid, t[3]>>]
             ELSE ISqrtIn[<<t[1], t[2], mid - 1>>]

\* floor of the square root of n < 2^28
ISqrt(n) == ISqrtIn[<<n, 0, 16383>>]

\* np.linalg.norm of a 3-vector d given in hundredths, as the pair
\* <<floor of the norm in tenths, whether the norm is exactly that>>.
\* With |d[k]| = 10 * h[k] + l[k] the sum of squares is 100 * H + L.
Norm(d) ==
    LET h(k) == Abs(d[k]) \div 10
        l(k) == Abs(d[k]) % 10
        H == h(1) * h(1) + h(2) * h(2) + h(3) * h(3)
        L == (20 * h(1) * l(1) + l(1) * l(1)) + (20 * h(2) * l(2) + l(2) * l(2))
             + (20 * h(3) * l(3) + l(3) * l(3))
        T == H + (L \div 100)
        r == ISqrt(T)
    IN  <<r, r * r = T /\ L % 100 = 0>>

\* ActuatorLength pairing effector i with the base of the next actuator
ActuatorLengthNextBase(hand, i) ==
    LET e == EffectorPos(hand, i)
        n == Norm([k \in 1..3 |-> e[k] - BASE_POS[(i % NUM_ACTUATORS) + 1][k]])
    IN  IF n[1] >= MIN_ACTUATOR_LEN \/ n[2] THEN n[1] - MIN_ACTUATOR_LEN
        ELSE n[1] + 1 - MIN_ACTUATOR_LEN

\* line 106: norm(effector_pos[:3,:] - BASE_POS[i].T) - MIN_ACTUATOR_LEN,
\* in tenths, truncated toward zero
ActuatorLength(hand, i) ==
    LET e == EffectorPos(hand, i)
        n == Norm([k \in 1..3 |-> e[k] - BASE_POS[i][k]])
    IN  IF n[1] >= MIN_ACTUATOR_LEN \/ n[2] THEN n[1] - MIN_ACTUATOR_LEN
        ELSE n[1] + 1 - MIN_ACTUATOR_LEN

\* lines 99-106
ActuatorLengths(hand) == [i \in 1..NUM_ACTUATORS |-> ActuatorLength(hand, i)]


----------------------------------------------------------------------------
(* The frames the tracking source delivers *)

Hand(valid, x, y, z, pitch, yaw, roll) ==
    [is_valid |-> valid, x |-> x, y |-> y, z |-> z,
     pitch |-> pitch, yaw |-> yaw, roll |-> roll]

HandA == Hand(TRUE, 25, -30, 10, 0, 0, 0)

HandB == Hand(TRUE, -10, 200, 5, 1, 0, 0)

HandLeft == Hand(TRUE, -60, 80, 7, 0, 0, 1)

BadRight == Hand(FALSE, 90, 0, 0, 0, 0, 0)

BadLeft == Hand(FALSE, -90, 0, 0, 0, 0, 0)

Frames ==
    { <<>>,                    \* no hands
      <<HandA>>,
      <<HandB>>,
      <<BadRight, HandLeft>>,  \* the rightmost hand is invalid, another is valid
      <<HandA, BadLeft>> }     \* the rightmost hand is valid, another is not

\* the hands of those frames
Hands == UNION {{f[k] : k \in 1..Len(f)} : f \in Frames}

\* lines 99-106 for each of those hands, computed once: the solver is a pure
\* function of the hand
Solved == [h \in Hands |-> ActuatorLengths(h)]

\* lines 91-94 for each of those hands
Built == [h \in Hands |-> TransformMatrix(h.pitch, h.yaw, h.roll)]

\* the frames delivered per session are capped
MaxFrames == 25

WriteOutcomes == {"ok", "timeout", "error"}

OpenOutcomes == {"ok", "fail"}

----------------------------------------------------------------------------
(* The callbacks of LeapListener, lines 45-126 *)

\* one device operation: serial.Serial(...)/ser.open(), ser.write(data), ser.close()
Op(op, data, result) == [op |-> op, data |-> data, result |-> result]

\* frame.hands.rightmost, line 80: the hand with the largest palm x
Rightmost(hands) ==
    LET H == {hands[k] : k \in 1..Len(hands)}
    IN  CHOOSE h \in H : \A g \in H : g.x <= h.x

\* HasValidHand taking any valid hand of the frame for a valid rightmost one
HasAnyValidHand(f) == \E k \in 1..Len(f) : f[k].is_valid

\* lines 78-82: the frame has hands and the rightmost one is valid
HasValidHand(f) == Len(f) > 0 /\ Rightmost(f).is_valid

\* Paced sending as soon as the counter has reached FRAME_RATE
PacedAtRate(count) == count >= FRAME_RATE

\* line 112: whether this frame prints and sends
Paced(count) == count > FRAME_RATE

\* what ser.write raises, line 117: w is what the device does with a write on
\* an open port; a port that is not open raises a SerialException
WriteResult(link, w) == IF link = "open" THEN w ELSE "error"

\* the five lines printed on a timeout, lines 119-120
TimeoutMessages == [k \in 1..5 |-> <<"Timeout detected!">>]

\* PrintOnly with the reset of line 124 under the "if not NO_SERIAL" of line 115
PrintOnlyNoReset(self, s) ==
    [frame_count |-> self.frame_count, ser |-> self.ser, out |-> <<s>>, io |-> <<>>,
     raised |-> FALSE]

\* lines 113 and 124 with NO_SERIAL set: print, no device operation, reset
PrintOnly(self, s) ==
    [frame_count |-> 0, ser |-> self.ser, out |-> <<s>>, io |-> <<>>, raised |-> FALSE]

\* lines 113, 117 and 124, the write wr returned: print, reset
Written(self, s, wr) ==
    [frame_count |-> 0, ser |-> self.ser, out |-> <<s>>, io |-> <<wr>>, raised |-> FALSE]

\* Recover writing the string again once the link is reopened
RecoverRetry(self, s, wr, o) ==
    LET ops == <<wr, Op("close", <<>>, "ok"), Op("open", <<>>, o)>>
    IN  IF o = "ok"
        THEN [frame_count |-> 0, ser |-> "open", out |-> <<s>> \o TimeoutMessages,
              io |-> ops \o <<Op("write", s, "ok")>>, raised |-> FALSE]
        ELSE [frame_count |-> self.frame_count, ser |-> "closed",
              out |-> <<s>> \o TimeoutMessages, io |-> ops, raised |-> TRUE]

\* Recover without the ser.open() of line 122
RecoverCloseOnly(self, s, wr, o) ==
    [frame_count |-> 0, ser |-> "closed", out |-> <<s>> \o TimeoutMessages,
     io |-> <<wr, Op("close", <<>>, "ok")>>, raised |-> FALSE]

\* Recover with the ser.open() of line 122 in a try/except of its own: a
\* failed reopen is swallowed and the callback goes on to line 124
RecoverSwallow(self, s, wr, o) ==
    [frame_count |-> 0, ser |-> IF o = "ok" THEN "open" ELSE "closed",
     out |-> <<s>> \o TimeoutMessages,
     io |-> <<wr, Op("close", <<>>, "ok"), Op("open", <<>>, o)>>, raised |-> FALSE]

\* lines 118-124, the write wr raised SerialTimeoutException: the messages,
\* ser.close(), ser.open() with outcome o; a failed open raises out of on_frame
\* before line 124
Recover(self, s, wr, o) ==
    LET ops == <<wr, Op("close", <<>>, "ok"), Op("open", <<>>, o)>>
    IN  IF o = "ok"
        THEN [frame_count |-> 0, ser |-> "open", out |-> <<s>> \o TimeoutMessages,
              io |-> ops, raised |-> FALSE]
        ELSE [frame_count |-> self.frame_count, ser |-> "closed",
              out |-> <<s>> \o TimeoutMessages, io |-> ops, raised |-> TRUE]

\* Propagate with a bare "except:" on line 118: every exception handled as a timeout
PropagateCaught(self, s, wr) == Recover(self, s, wr, "ok")

\* line 117, the write wr raised anything else: no except clause matches, the
\* exception leaves on_frame before line 124
Propagate(self, s, wr) ==
    [frame_count |-> self.frame_count, ser |-> self.ser, out |-> <<s>>,
     io |-> <<wr>>, raised |-> TRUE]

\* lines 113-124 of on_frame, reached with frame_count > FRAME_RATE.
\* w: outcome of the write ("ok", "timeout" = SerialTimeoutException,
\* "error" = any other exception); o: outcome of ser.open() ("ok", "fail").
\* raised: an exception leaves the callback.
Transmit(self, s, w, o) ==
    IF self.NO_SERIAL
    THEN PrintOnly(self, s)
    ELSE LET res == WriteResult(self.ser, w)
             wr  == Op("write", s, res)
         IN  CASE res = "ok" -> Written(self, s, wr)
               [] res = "timeout" -> Recover(self, s, wr, o)
               [] OTHER -> Propagate(self, s, wr)

\* PaceAndSend keeping the counter within 0..FRAME_RATE: the increment of
\* line 126 is skipped once the counter has reached FRAME_RATE
PaceAndSendCapped(self, s, w, o) ==
    IF Paced(self.frame_count)
    THEN Transmit(self, s, w, o)
    ELSE [frame_count |-> IF self.frame_count < FRAME_RATE THEN self.frame_count + 1
                          ELSE self.frame_count,
          ser |-> self.ser, out |-> <<>>, io |-> <<>>, raised |-> FALSE]

\* lines 111-126 of on_frame, on the listener self = [frame_count, ser,
\* NO_SERIAL] and the string s of line 109
PaceAndSend(self, s, w, o) ==
    IF Paced(self.frame_count)
    THEN Transmit(self, s, w, o)
    ELSE [frame_count |-> self.frame_count + 1, ser |-> self.ser, out |-> <<>>,
          io |-> <<>>, raised |-> FALSE]

\* on_frame sending the string of an empty list of lengths instead of s
on_frame_NoLengths(self, valid, s, w, o) ==
    IF valid
    THEN PaceAndSend(self, <<"<", ">">>, w, o)
    ELSE [frame_count |-> self.frame_count, ser |-> self.ser, out |-> <<>>,
          io |-> <<>>, raised |-> FALSE]

\* on_frame with the else of line 125 at the level of the if of line 82 as
\* well: a frame without a valid hand is counted
on_frame_CountsEveryFrame(self, valid, s, w, o) ==
    IF valid
    THEN PaceAndSend(self, s, w, o)
    ELSE [frame_count |-> self.frame_count + 1, ser |-> self.ser, out |-> <<>>,
          io |-> <<>>, raised |-> FALSE]

\* on_frame, lines 73-126, after the solver: valid tells whether the frame has
\* hands and a valid rightmost one (lines 78 and 82), s is the string of line 109
on_frame(self, valid, s, w, o) ==
    IF valid
    THEN PaceAndSend(self, s, w, o)
    ELSE [frame_count |-> self.frame_count, ser |-> self.ser, out |-> <<>>,
          io |-> <<>>, raised |-> FALSE]

----------------------------------------------------------------------------
(* The session: main() registers the listener, the controller calls back *)

Init ==
    /\ NO_SERIAL \in BOOLEAN
    /\ callback = "none"
    /\ session = "new"
    /\ frame_count = 0
    /\ ser = "none"
    /\ frame = <<>>
    /\ nframes = 0
    /\ nvalid = 0
    /\ transform_matrix = <<>>
    /\ actuator_lengths = <<>>
    /\ ser_string = <<>>
    /\ out = <<>>
    /\ io = <<>>
    /\ sent = <<>>
    /\ twin_count = 0
    /\ twin_out = <<>>
    /\ twin_io = <<>>

\* on_init, lines 47-56; o: outcome of serial.Serial(...), which opens the port
OnInit(o) ==
    /\ callback' = "on_init"
    /\ session = "new"
    /\ frame_count' = 0
    /\ out' = <<<<"Initializing">>>>
    /\ IF NO_SERIAL
       THEN /\ io' = <<>>
            /\ ser' = ser
            /\ session' = "active"
       ELSE /\ io' = <<Op("open", <<>>, o)>>
            /\ ser' = IF o = "ok" THEN "open" ELSE "none"
            /\ session' = IF o = "ok" THEN "active" ELSE "aborted"
    /\ twin_count' = 0
    /\ twin_out' = <<<<"Initializing">>>>
    /\ twin_io' = <<>>
    /\ UNCHANGED <<NO_SERIAL, frame, nframes, nvalid, transform_matrix, actuator_lengths,
                   ser_string, sent>>

\* on_connect, lines 58-59
OnConnect ==
    /\ callback' = "on_connect"
    /\ session = "active"
    /\ out' = <<<<"Connected">>>>
    /\ io' = <<>>
    /\ twin_out' = <<<<"Connected">>>>
    /\ twin_io' = <<>>
    /\ UNCHANGED <<NO_SERIAL, session, frame_count, ser, frame, nframes, nvalid,
                   transform_matrix, actuator_lengths, ser_string, sent, twin_count>>

\* on_disconnect, lines 61-62
OnDisconnect ==
    /\ callback' = "on_disconnect"
    /\ session = "active"
    /\ out' = <<<<"Disconnected">>>>
    /\ io' = <<>>
    /\ twin_out' = <<<<"Disconnected">>>>
    /\ twin_io' = <<>>
    /\ UNCHANGED <<NO_SERIAL, session, frame_count, ser, frame, nframes, nvalid,
                   transform_matrix, actuator_lengths, ser_string, sent, twin_count>>

\* on_exit, lines 64-71
OnExit ==
    /\ callback' = "on_exit"
    /\ session = "active"
    /\ session' = "exited"
    /\ out' = <<<<"Exited">>>>
    /\ IF NO_SERIAL
       THEN io' = <<>> /\ ser' = ser
       ELSE io' = <<Op("close", <<>>, "ok")>> /\ ser' = "closed"
    /\ twin_out' = <<<<"Exited">>>>
    /\ twin_io' = <<>>
    /\ UNCHANGED <<NO_SERIAL, frame_count, frame, nframes, nvalid, transform_matrix,
                   actuator_lengths, ser_string, sent, twin_count>>

\* the transmissions of one callback: what line 113 printed, with the outcome
\* of the write of line 117 ("printed" when no write was made)
SentBy(r, n, v) ==
    IF r.out = <<>> THEN <<>>
    ELSE <<[frame |-> n, valid |-> v, data |-> r.out[1],
            result |-> IF r.io = <<>> THEN "printed" ELSE r.io[1].result]>>

\* on_frame, lines 73-126, on the frame f.  The device outcomes w and o are
\* drawn only where the callback reaches ser.write, and ser.open.  The second
\* listener gets the same frame; its solver is the same pure code.
CallOnFrame(f, w, o) ==
    /\ session = "active"
    /\ w # "ok" => ~NO_SERIAL /\ HasValidHand(f) /\ Paced(frame_count)
    /\ o # "ok" => w = "timeout"
    /\ callback' = "on_frame"
    /\ frame' = f
    /\ transform_matrix' = IF HasValidHand(f) THEN Built[Rightmost(f)] ELSE <<>>
    /\ actuator_lengths' = IF HasValidHand(f) THEN Solved[Rightmost(f)] ELSE <<>>
    /\ ser_string' = IF HasValidHand(f) THEN assemble_serial_output(actuator_lengths')
                     ELSE <<>>
    /\ LET r == on_frame([frame_count |-> frame_count, ser |-> ser,
                          NO_SERIAL |-> NO_SERIAL], HasValidHand(f), ser_string', w, o)
           t == on_frame([frame_count |-> twin_count, ser |-> "none",
                          NO_SERIAL |-> TRUE], HasValidHand(f), ser_string', w, o)
       IN  /\ frame_count' = r.frame_count
           /\ ser' = r.ser
           /\ out' = r.out
           /\ io' = r.io
           /\ session' = IF r.raised THEN "aborted" ELSE "active"
           /\ twin_count' = t.frame_count
           /\ twin_out' = t.out
           /\ twin_io' = t.io
    /\ UNCHANGED NO_SERIAL

\* one on_frame of a session of at most MaxFrames frames, the frames counted
\* and the transmission, if any, put on record
OnFrame(f, w, o) ==
    /\ nframes < MaxFrames
    /\ CallOnFrame(f, w, o)
    /\ nframes' = nframes + 1
    /\ nvalid' = IF HasValidHand(f) THEN nvalid + 1 ELSE nvalid
    /\ sent' = sent \o SentBy([out |-> out', io |-> io'], nframes', nvalid')

Next ==
    \/ \E o \in OpenOutcomes : OnInit(o)
    \/ OnConnect
    \/ OnDisconnect
    \/ \E f \in Frames, w \in WriteOutcomes, o \in OpenOutcomes : OnFrame(f, w, o)
    \/ OnExit

Spec == Init /\ [][Next]_vars

----------------------------------------------------------------------------
(* A session without end: the tracking source keeps delivering frames *)

\* the latest two entries of a record of transmissions
LatestTwo(log) == IF Len(log) <= 2 THEN log ELSE SubSeq(log, Len(log) - 1, Len(log))

\* one on_frame of a session of any length; the frames are not counted and
\* only the latest two transmissions stay on record
LiveFrame(f, w, o) ==
    /\ CallOnFrame(f, w, o)
    /\ sent' = LatestTwo(sent \o SentBy([out |-> out', io |-> io'], 0, 0))
    /\ UNCHANGED <<nframes, nvalid>>

\* a frame whose rightmost hand is valid is delivered
ValidFrame ==
    \E f \in {g \in Frames : HasValidHand(g)}, w \in WriteOutcomes, o \in OpenOutcomes :
        LiveFrame(f, w, o)

\* a frame without a valid rightmost hand is delivered
InvalidFrame == \E f \in {g \in Frames : ~HasValidHand(g)} : LiveFrame(f, "ok", "ok")

LiveNext ==
    \/ \E o \in OpenOutcomes : OnInit(o)
    \/ OnConnect
    \/ OnDisconnect
    \/ ValidFrame
    \/ InvalidFrame
    \/ OnExit

\* while the session is active the controller goes on calling on_frame, and
\* frames with a valid hand keep arriving
SpecLive == Init /\ [][LiveNext]_vars /\ WF_vars(ValidFrame)

----------------------------------------------------------------------------
(* assemble_serial_output on its own: a list of six lengths, then the call *)

\* the example list [1.7, -2.9, 0.0, 100.4, -0.1, 5.9], in tenths
ExampleLengths == <<17, -29, 0, 1004, -1, 59>>

\* lengths in tenths: below -1, in (-1, 0), zero, in (0, 1), above 1
SampleLengths == {-29, -10, -1, 0, 9, 17}

AssembleInputs == [1..NUM_ACTUATORS -> SampleLengths] \cup {ExampleLengths}

AssembleInit ==
    /\ actuator_lengths \in AssembleInputs
    /\ ser_string = <<>>
    /\ NO_SERIAL = FALSE
    /\ callback = "none"
    /\ session = "new"
    /\ frame_count = 0
    /\ ser = "none"
    /\ frame = <<>>
    /\ nframes = 0
    /\ nvalid = 0
    /\ transform_matrix = <<>>
    /\ out = <<>>
    /\ io = <<>>
    /\ sent = <<>>
    /\ twin_count = 0
    /\ twin_out = <<>>
    /\ twin_io = <<>>

\* line 109: ser_string = assemble_serial_output(actuator_lengths)
Assemble ==
    /\ ser_string = <<>>
    /\ ser_string' = assemble_serial_output(actuator_lengths)
    /\ UNCHANGED <<NO_SERIAL, callback, session, frame_count, ser, frame, nframes,
                   transform_matrix, actuator_lengths, out, io, nvalid, sent, twin_count,
                   twin_out, twin_io>>

AssembleNext == Assemble

SpecAssemble == AssembleInit /\ [][AssembleNext]_vars

----------------------------------------------------------------------------
(* The solver of on_frame on its own: a valid hand, then lines 91-94 build *)
(* the transform matrix and lines 99-106 compute the six lengths           *)

\* angles range over the quarter turns 0..MaxTurn
MaxTurn == 3

\* palm positions (x, y, z) in millimetres; the first is the home position
Positions == { <<0, 0, 0>>, <<25, -30, 10>>, <<-10, 200, 5>>, <<-40, 150, -20>> }

Poses ==
    { Hand(TRUE, p[1], p[2], p[3], pitch, yaw, roll) :
        p \in Positions, pitch \in 0..MaxTurn, yaw \in 0..MaxTurn, roll \in 0..MaxTurn }

SolverInit ==
    /\ frame \in {<<h>> : h \in Poses}
    /\ transform_matrix = <<>>
    /\ actuator_lengths = <<>>
    /\ ser_string = <<>>
    /\ NO_SERIAL = FALSE
    /\ callback = "none"
    /\ session = "new"
    /\ frame_count = 0
    /\ ser = "none"
    /\ nframes = 0
    /\ nvalid = 0
    /\ out = <<>>
    /\ io = <<>>
    /\ sent = <<>>
    /\ twin_count = 0
    /\ twin_out = <<>>
    /\ twin_io = <<>>

\* lines 84-94: the angles of the rightmost hand, then the matrix
BuildTransform ==
    /\ transform_matrix = <<>>
    /\ LET hand == Rightmost(frame)
       IN  transform_matrix' = TransformMatrix(hand.pitch, hand.yaw, hand.roll)
    /\ UNCHANGED <<NO_SERIAL, callback, session, frame_count, ser, frame, nframes,
                   actuator_lengths, ser_string, out, io, nvalid, sent, twin_count,
                   twin_out, twin_io>>

\* lines 97-106: the loop over the actuators
Solve ==
    /\ transform_matrix # <<>>
    /\ actuator_lengths = <<>>
    /\ actuator_lengths' = ActuatorLengths(Rightmost(frame))
    /\ UNCHANGED <<NO_SERIAL, callback, session, frame_count, ser, frame, nframes,
                   transform_matrix, ser_string, out, io, nvalid, sent, twin_count,
                   twin_out, twin_io>>

SolverNext == BuildTransform \/ Solve

SpecSolver == SolverInit /\ [][SolverNext]_vars

----------------------------------------------------------------------------
(* What the properties below read off a state *)

\* the frame has no hand, or the hand with the largest palm x is not valid
NoValidRightmost(f) ==
    \/ Len(f) = 0
    \/ \E k \in 1..Len(f) : ~f[k].is_valid /\ \A j \in 1..Len(f) : f[j].x <= f[k].x

\* the string the source prints for the frame f, run on IEEE doubles
\* (angles of 0 and pi/2): the reference the fixed-point solver is held to
Reference(f) ==
    CASE f = <<HandA>> \/ f = <<HandA, BadLeft>> ->
            <<"<", "3", ",", "6", ",", "-", "1", "6", ",", "0", ",", "3", ",",
              "-", "1", "5", ">">>
      [] f = <<HandB>> ->
            <<"<", "7", "6", ",", "1", "7", "4", ",", "2", "7", "2", ",",
              "4", "6", "9", ",", "3", "6", "8", ",", "2", "2", ">">>
      [] OTHER -> <<>>

\* the latest callback was an on_frame that printed and sent
Transmitted == callback = "on_frame" /\ out # <<>>

\* the write operations among the device operations of the latest callback
Writes == {k \in 1..Len(io) : io[k].op = "write"}

\* the latest transmission of the session, if any
LastSent == sent[Len(sent)]

\* frames, and valid-hand frames, delivered up to the latest transmission
SentFrames == IF sent = <<>> THEN 0 ELSE LastSent.frame

SentValid == IF sent = <<>> THEN 0 ELSE LastSent.valid

----------------------------------------------------------------------------
(* C1 *)

\* C1: on a stream of frames that all carry a valid rightmost hand, starting
\* from counter 0, exactly one transmission is made per FRAME_RATE + 1 frames:
\* the k-th transmission is made on frame k * (FRAME_RATE + 1).
C1_OnePerNPlus1 ==
    nvalid = nframes =>
        \A k \in 1..Len(sent) : sent[k].frame = k * (FRAME_RATE + 1)

----------------------------------------------------------------------------
(* C2 *)

\* C2: whenever on_frame transmits, what it prints and what it writes is the
\* string computed from the pose of that very frame, the latest one delivered,
\* and a frame that does not transmit leaves nothing printed or written.
C2_SendsThisFrame ==
    callback = "on_frame" =>
        IF out # <<>>
        THEN /\ ~NoValidRightmost(frame)
             /\ out[1] = Reference(frame)
             /\ \A k \in Writes : io[k].data = Reference(frame)
             /\ LastSent.frame = nframes
             /\ LastSent.data = Reference(frame)
        ELSE io = <<>> /\ SentFrames < nframes

\* a second transmission whose frame has another pose than the frame of the first
C2_Witness ==
    /\ Transmitted
    /\ ~NO_SERIAL
    /\ Len(sent) = 2
    /\ sent[1].data # sent[2].data
    /\ frame = <<HandB>>
    /\ Writes # {}

----------------------------------------------------------------------------
(* C3 *)

\* the latest callback was an on_frame whose write timed out
TimedOut == callback = "on_frame" /\ io # <<>> /\ io[1] = Op("write", ser_string, "timeout")

\* no frame is transmitted twice, and transmissions are at least FRAME_RATE + 2
\* valid-hand frames apart
NoRetry ==
    \A k \in 1..Len(sent) :
        sent[k].valid >= (IF k = 1 THEN 0 ELSE sent[k - 1].valid) + FRAME_RATE + 2

\* C3 as stated: on a write timeout the link is closed and reopened exactly
\* once, the string is not written again, the counter is reset to 0 and the
\* session goes on.
C3_TimeoutRecovers ==
    /\ NoRetry
    /\ TimedOut =>
          /\ io = <<Op("write", ser_string, "timeout"), Op("close", <<>>, "ok"),
                    Op("open", <<>>, "ok")>>
          /\ ser = "open"
          /\ frame_count = 0
          /\ session = "active"

\* C3 as amended: on a write timeout the link is closed once and one reopen is
\* attempted, and the string is not written again.  When the reopen succeeds
\* the link is open, the counter is 0 and the session goes on; when the reopen
\* fails its exception leaves on_frame: the link stays closed, the counter is
\* not reset and the session ends.
C3_TimeoutClosesAndReopensOnce ==
    /\ NoRetry
    /\ TimedOut =>
          /\ Len(io) = 3
          /\ Writes = {1}
          /\ io[2] = Op("close", <<>>, "ok")
          /\ io[3].op = "open"
          /\ IF io[3].result = "ok"
             THEN ser = "open" /\ frame_count = 0 /\ session = "active"
             ELSE ser = "closed" /\ frame_count = FRAME_RATE + 1 /\ session = "aborted"

\* a second transmission times out after the first one did and was recovered
C3_Witness ==
    /\ TimedOut
    /\ Len(sent) = 2
    /\ sent[1].result = "timeout"
    /\ session = "active"
    /\ frame_count = 0

----------------------------------------------------------------------------
(* C4 *)

\* C4: an on_frame whose frame has no hands, or whose rightmost hand is not
\* valid, computes nothing, prints and sends nothing, and leaves the frame
\* counter, the link and the record of transmissions as they were.
C4_InvalidFrameDoesNothing ==
    [][callback' = "on_frame" /\ NoValidRightmost(frame') =>
          /\ actuator_lengths' = <<>>
          /\ ser_string' = <<>>
          /\ out' = <<>>
          /\ io' = <<>>
          /\ sent' = sent
          /\ frame_count' = frame_count
          /\ ser' = ser
          /\ session' = session]_vars

\* a frame whose rightmost hand is invalid and whose other hand is valid,
\* delivered when the counter would let a valid frame transmit
C4_Witness ==
    /\ callback = "on_frame"
    /\ frame = <<BadRight, HandLeft>>
    /\ frame_count = FRAME_RATE + 1
    /\ ser = "open"

----------------------------------------------------------------------------
(* C5 *)

\* C5 as stated: a frame without a valid hand produces no output and still
\* advances the frame counter, so the counter counts every frame delivered
\* since the latest transmission.
C5_InvalidFrameAdvances ==
    /\ callback = "on_frame" /\ NoValidRightmost(frame) => out = <<>>
    /\ session = "active" => frame_count = nframes - SentFrames

\* C5 as amended: a frame without a valid hand produces no output and leaves
\* the frame counter alone: the counter counts the valid-hand frames
\* delivered since the latest transmission.
C5_InvalidFrameNotCounted ==
    /\ callback = "on_frame" /\ NoValidRightmost(frame) => out = <<>>
    /\ session = "active" => frame_count = nvalid - SentValid

\* a frame without hands delivered after some valid frames were counted
C5_Witness ==
    /\ callback = "on_frame"
    /\ frame = <<>>
    /\ session = "active"
    /\ frame_count = 3
    /\ nframes = 5

----------------------------------------------------------------------------
(* C6 *)

DecimalDigits == {"0", "1", "2", "3", "4", "5", "6", "7", "8", "9"}

\* the positions of the commas of the string s
CommasOf(s) == {k \in 1..Len(s) : s[k] = ","}

\* the i-th comma-separated field of the string s without its first and last
\* character
FieldOf(s, i) ==
    LET cuts  == {1, Len(s)} \cup CommasOf(s)
        from  == CHOOSE k \in cuts : Cardinality({j \in cuts : j < k}) = i - 1
        to    == CHOOSE k \in cuts : Cardinality({j \in cuts : j < k}) = i
    IN  SubSeq(s, from + 1, to - 1)

\* the number a sequence of decimal digits spells
RECURSIVE NatOf(_)
NatOf(ds) ==
    IF ds = <<>> THEN 0
    ELSE 10 * NatOf(SubSeq(ds, 1, Len(ds) - 1))
         + (CHOOSE d \in 0..9 : Digit(d) = ds[Len(ds)])

\* the field is an integer written the way str writes it: an optional minus
\* sign, then digits without a leading zero, and no "-0"
IsIntegerText(fld) ==
    LET ds == IF fld # <<>> /\ fld[1] = "-" THEN Tail(fld) ELSE fld
    IN  /\ ds # <<>>
        /\ \A k \in 1..Len(ds) : ds[k] \in DecimalDigits
        /\ ds[1] = "0" => Len(ds) = 1 /\ fld = ds

IntegerOf(fld) == IF fld[1] = "-" THEN -NatOf(Tail(fld)) ELSE NatOf(fld)

\* n is the length l (in tenths) with its fraction dropped: truncated toward zero
TruncatedTowardZero(l, n) ==
    /\ Tenths * Abs(n) <= Abs(l)
    /\ Abs(l) < Tenths * Abs(n) + Tenths
    /\ n > 0 => l > 0
    /\ n < 0 => l < 0

\* C6: assemble_serial_output of six numbers is "<", the six values in input
\* order joined by "," and ">", with no whitespace and no newline, each value
\* truncated toward zero to an integer; [1.7, -2.9, 0.0, 100.4, -0.1, 5.9]
\* gives "<1,-2,0,100,0,5>", a value in (-1, 0) being written "0".
C6_AssembleFormat ==
    ser_string # <<>> /\ Len(actuator_lengths) = NUM_ACTUATORS =>
        /\ ser_string[1] = "<"
        /\ ser_string[Len(ser_string)] = ">"
        /\ \A k \in 2..(Len(ser_string) - 1) :
              ser_string[k] \in DecimalDigits \cup {"-", ","}
        /\ Cardinality(CommasOf(ser_string)) = NUM_ACTUATORS - 1
        /\ \A i \in 1..NUM_ACTUATORS :
              /\ IsIntegerText(FieldOf(ser_string, i))
              /\ TruncatedTowardZero(actuator_lengths[i],
                                     IntegerOf(FieldOf(ser_string, i)))
        /\ actuator_lengths = ExampleLengths =>
              ser_string = <<"<", "1", ",", "-", "2", ",", "0", ",", "1", "0", "0",
                             ",", "0", ",", "5", ">">>

\* the example list has been assembled
C6_Witness ==
    /\ actuator_lengths = ExampleLengths
    /\ ser_string = <<"<", "1", ",", "-", "2", ",", "0", ",", "1", "0", "0",
                      ",", "0", ",", "5", ">">>

----------------------------------------------------------------------------
(* C7 *)

\* C7: the link is acquired at on_init and released on every exit path: in
\* serial mode an active session holds the link open, and no session has
\* ended, by on_exit or by an exception leaving a callback, with the link open.
C7_LinkReleasedOnEveryExit ==
    /\ ~NO_SERIAL /\ session = "active" => ser = "open"
    /\ session \in {"exited", "aborted"} => ser # "open"

----------------------------------------------------------------------------
(* C8 *)

\* no write of the session timed out or failed
NoFaultSoFar == \A k \in 1..Len(sent) : sent[k].result \in {"ok", "printed"}

\* C8: with NO_SERIAL set no callback makes a device operation and there is
\* no link, and the pacing is that of serial mode without faults: a listener
\* with NO_SERIAL set, given the same frames, has the same frame counter and
\* prints the same lines as the serial one.
C8_DebugModeSamePacing ==
    /\ NO_SERIAL => io = <<>> /\ ser = "none" /\ NoFaultSoFar
    /\ twin_io = <<>>
    /\ session \in {"active", "exited"} /\ NoFaultSoFar =>
          twin_count = frame_count /\ twin_out = out

\* the serial listener made its second transmission, the other one printed the same
C8_Witness ==
    /\ ~NO_SERIAL
    /\ Transmitted
    /\ Len(sent) = 2
    /\ NoFaultSoFar
    /\ Writes # {}
    /\ twin_out = out
    /\ twin_count = 0

----------------------------------------------------------------------------
(* C9 *)

\* the latest callback was an on_frame whose write raised something other
\* than a timeout
WriteFailed == callback = "on_frame" /\ io # <<>> /\ io[1].op = "write" /\ io[1].result = "error"

\* C9: a write fault other than a timeout is not handled: it leaves on_frame
\* and ends the session, the handler's close and reopen are not made, no
\* timeout message is printed and the counter is not reset.
C9_OtherFaultPropagates ==
    WriteFailed =>
        /\ io = <<Op("write", ser_string, "error")>>
        /\ out = <<ser_string>>
        /\ session = "aborted"
        /\ frame_count = FRAME_RATE + 1
        /\ ser = "open"

\* the write of the second transmission fails, after the first one timed out
\* and was recovered
C9_Witness ==
    /\ WriteFailed
    /\ Len(sent) = 2
    /\ sent[1].result = "timeout"
    /\ session = "aborted"

----------------------------------------------------------------------------
(* C10 *)

\* C10: each callback makes at most one write, a write is made by the on_frame
\* of the frame whose pose it carries, and every transmission is appended to
\* the record by that on_frame, after all earlier ones: what is written is a
\* subsequence of the frames in the order of delivery.
C10_InOrderNoBuffering ==
    [][/\ Cardinality(Writes') <= 1
       /\ \A k \in Writes' :
             /\ callback' = "on_frame"
             /\ io'[k].data = Reference(frame')
             /\ sent' # sent
       /\ sent' # sent =>
             /\ callback' = "on_frame"
             /\ nframes' = nframes + 1
             /\ Len(sent') = Len(sent) + 1
             /\ SubSeq(sent', 1, Len(sent)) = sent
             /\ sent'[Len(sent')].frame = nframes'
             /\ sent'[Len(sent')].data = Reference(frame')
             /\ SentFrames < nframes']_vars

\* two transmissions written, with frames without a valid hand in between
C10_Witness ==
    /\ ~NO_SERIAL
    /\ Len(sent) = 2
    /\ sent[1].frame < sent[2].frame
    /\ sent[2].frame - sent[1].frame > FRAME_RATE + 2
    /\ sent[1].data # sent[2].data
    /\ Writes # {}


----------------------------------------------------------------------------
(* C11: the six lengths, recomputed without a square root *)

\* the vector whose norm claim C11 names for actuator i: R * effector[i]
\* + (pos.x, -pos.z, pos.y + HOME_POSITION_HEIGHT) - base[i], in hundredths,
\* with R the matrix the callback built
ClaimedVector(R, hand, i) ==
    LET t == << Hundredths * hand.x, -(Hundredths * hand.z),
                Hundredths * hand.y + HOME_POSITION_HEIGHT >>
    IN  [k \in 1..3 |->
            R[k][1] * END_EFF_POS[i][1] + R[k][2] * END_EFF_POS[i][2]
            + R[k][3] * END_EFF_POS[i][3] + R[k][4] * END_EFF_POS[i][4]
            + t[k] - BASE_POS[i][k]]

\* the squared norm of d (hundredths) in squared tenths, as <<floor, ceiling>>:
\* with |d[k]| = 100 * a + b the square is 10000 * a * a + 200 * a * b + b * b
SquaredTenths(d) ==
    LET a(k) == (IF d[k] < 0 THEN -d[k] ELSE d[k]) \div 100
        b(k) == (IF d[k] < 0 THEN -d[k] ELSE d[k]) % 100
        whole == 100 * (a(1) * a(1) + a(2) * a(2) + a(3) * a(3))
                 + 2 * (a(1) * b(1) + a(2) * b(2) + a(3) * b(3))
        part == b(1) * b(1) + b(2) * b(2) + b(3) * b(3)
    IN  << whole + part \div 100,
           whole + part \div 100 + (IF part % 100 = 0 THEN 0 ELSE 1) >>

\* l is norm(d) - MIN_ACTUATOR_LEN in tenths, truncated toward zero
IsLengthOf(l, d) ==
    LET n == l + MIN_ACTUATOR_LEN
        s == SquaredTenths(d)
    IN  /\ n >= 0
        /\ l > 0 => n * n <= s[1]
        /\ l >= 0 => s[1] < (n + 1) * (n + 1)
        /\ l <= 0 => n = 0 \/ (n - 1) * (n - 1) < s[2]
        /\ l < 0 => s[2] <= n * n

\* the home position with zero rotation
HomePose == Hand(TRUE, 0, 0, 0, 0, 0, 0)

\* norm(effector[i] + (0, 0, HOME_POSITION_HEIGHT) - base[i]) - MIN_ACTUATOR_LEN
\* of the source's constants in IEEE doubles is 22.3357..., 22.3565...,
\* 22.3565..., 22.3357..., 22.3513..., 22.3513... millimetres
HomeLengths == <<223, 223, 223, 223, 223, 223>>

\* C11: once the solver has run on a valid pose there are exactly six
\* lengths, and the i-th is the norm of R * effector[i] + (x, -z, y + home)
\* - base[i] minus MIN_ACTUATOR_LEN, with effector and base of that same
\* index i; at the home position with zero rotation they are the lengths
\* recomputed from the constants alone.
C11_SolverLengths ==
    actuator_lengths # <<>> =>
        LET hand == Rightmost(frame)
        IN  /\ DOMAIN actuator_lengths = 1..NUM_ACTUATORS
            /\ \A i \in 1..NUM_ACTUATORS :
                  IsLengthOf(actuator_lengths[i], ClaimedVector(transform_matrix, hand, i))
            /\ hand = HomePose => actuator_lengths = HomeLengths

C11_Witness ==
    /\ frame = <<HomePose>>
    /\ actuator_lengths = HomeLengths


----------------------------------------------------------------------------
(* C12: the transform matrix *)

Identity4 ==
    << <<1, 0, 0, 0>>,
       <<0, 1, 0, 0>>,
       <<0, 0, 1, 0>>,
       <<0, 0, 0, 1>> >>

\* C12: the matrix built for pitch = yaw = roll = 0 is the identity matrix,
\* and for any angles its last row and its last column are (0, 0, 0, 1).
C12_TransformMatrix ==
    transform_matrix # <<>> =>
        LET hand == Rightmost(frame)
        IN  /\ hand.pitch = 0 /\ hand.yaw = 0 /\ hand.roll = 0
                => transform_matrix = Identity4
            /\ transform_matrix[4] = <<0, 0, 0, 1>>
            /\ <<transform_matrix[1][4], transform_matrix[2][4],
                 transform_matrix[3][4], transform_matrix[4][4]>> = <<0, 0, 0, 1>>

C12_Witness ==
    /\ transform_matrix = Identity4
    /\ actuator_lengths = <<>>
    /\ \E h \in Poses : frame = <<h>> /\ h.pitch = 0 /\ h.yaw = 0 /\ h.roll = 0


----------------------------------------------------------------------------
(* C13 *)

\* C13: in every reachable state the frame counter is in 0..FRAME_RATE.
C13_CounterInRange == frame_count \in 0..FRAME_RATE

----------------------------------------------------------------------------
(* C14 *)

\* a step that is an on_frame whose rightmost hand is valid
ValidFrameStep ==
    /\ callback' = "on_frame"
    /\ nframes' = nframes + 1
    /\ ~NoValidRightmost(frame')

\* the step printed nothing, made no device operation and no transmission
SilentStep == out' = <<>> /\ io' = <<>> /\ sent' = sent

\* the step made one transmission: it printed the string and recorded it
TransmissionStep == out' # <<>> /\ Len(sent') = Len(sent) + 1

\* the outcome of the transmission of the step
StepResult == sent'[Len(sent')].result

\* the step's reopen of the link after a timed-out write failed
ReopenFailed == StepResult = "timeout" /\ io'[Len(io')] = Op("open", <<>>, "fail")

\* C14 as stated: a valid-hand frame entered with counter <= FRAME_RATE adds
\* one to the counter and prints and writes nothing; one entered with
\* counter > FRAME_RATE makes a transmission, and the counter is 0 after
\* every transmission that completes or times out.
C14_IncrementOrTransmitAndReset ==
    [][ValidFrameStep =>
         IF frame_count <= FRAME_RATE
         THEN frame_count' = frame_count + 1 /\ SilentStep
         ELSE /\ TransmissionStep
              /\ StepResult \in {"printed", "ok", "timeout"} => frame_count' = 0]_vars

\* C14, amended: as above, but the counter is 0 after a transmission that
\* completes, or that times out and whose reopen succeeds; when the write
\* raises another fault or the reopen fails the counter keeps its value and
\* the session is over.
C14_IncrementOrTransmit ==
    [][ValidFrameStep =>
         IF frame_count <= FRAME_RATE
         THEN frame_count' = frame_count + 1 /\ SilentStep
         ELSE /\ TransmissionStep
              /\ IF StepResult = "error" \/ ReopenFailed
                 THEN frame_count' = frame_count /\ session' = "aborted"
                 ELSE frame_count' = 0 /\ session' = "active"]_vars

C14_Witness ==
    /\ callback = "on_frame"
    /\ Len(sent) = 2
    /\ sent[1].result = "ok"
    /\ sent[2].result = "timeout"
    /\ frame_count = 0
    /\ session = "active"


----------------------------------------------------------------------------
(* C15 *)

\* a step that is an on_frame reaching self.ser.write (line 117)
WriteStep == nframes' = nframes + 1 /\ Writes' # {}

\* C15: in serial mode every on_frame that reaches ser.write finds the link
\* open: whatever callbacks came before (on_init, frames whose writes
\* succeeded or timed out, a reopen that failed, on_exit), a session that is
\* still delivering callbacks has its link open.
C15_WriteOnlyWhileOpen ==
    [][/\ WriteStep => ~NO_SERIAL /\ ser = "open"
       /\ ~NO_SERIAL /\ session' = "active" => ser' = "open"]_vars

C15_Witness ==
    /\ Writes # {}
    /\ ser = "open"
    /\ Len(sent) = 2
    /\ sent[1].result = "timeout"
    /\ sent[2].result = "ok"


----------------------------------------------------------------------------
(* C16 *)

\* C16: while the session is active and valid-hand frames keep arriving, a
\* transmission is attempted again and again, whatever the writes do: a write
\* that times out (with a reopen that succeeds) drops its frame but leaves
\* the pacer counting toward the next transmission.
C16_TransmitsAgainAndAgain == []<>(Transmitted \/ session # "active")

C16_Witness ==
    /\ Transmitted
    /\ session = "active"
    /\ nframes = 0
    /\ Len(sent) = 2
    /\ sent[1].result = "timeout"
    /\ sent[2].result = "timeout"

=============================================================================
